---- MODULE Spec2Model ----
(***************************************************************************)
(* A model of auto_phylip.py: the table-to-PHYLIP converter, the builders  *)
(* of the scripted command files, and the stages that drive the external   *)
(* PHYLIP programs and relocate their fixed-name output files.             *)
(*                                                                         *)
(* Python strings are modelled as sequences of one-character strings, so   *)
(* that slicing, rpartition, ljust, str() and concatenation are computed   *)
(* as the code computes them.  An optional value is None (the empty        *)
(* sequence) or Some(v) (the one-element sequence <<v>>).                  *)
(***************************************************************************)
EXTENDS Integers, Sequences, FiniteSets, TLC

VARIABLES
    top,       \* the entry point that was called, with its arguments
    pc,        \* position of the running call
    loc,       \* local variables of the running call
    fs,        \* the working directory: file name -> file content
    running,   \* the external programs launched and not yet terminated
    launched,  \* the history of external-program launches, in order
    err,       \* the exception that ended the call ("" while none)
    ret,       \* the value returned by the entry point (None until then)
    inp,       \* the arguments of a pure-function call
    out        \* the result of a pure-function call

vars == <<top, pc, loc, fs, running, launched, err, ret, inp, out>>

pipevars == <<top, pc, loc, fs, running, launched, err, ret>>

---------------------------------------------------------------------------
(* Bounds of the model.                                                    *)

MaxBootstrap == 2

MaxJumble == 2

MaxSeed == 13

MaxRows == 3

---------------------------------------------------------------------------
(* Python values.                                                          *)

None == <<>>

Some(v) == <<v>>

\* Python truthiness of an optional integer: None and 0 are false.
truthy_int(b) == b # None /\ b[1] # 0

\* Python truthiness of an optional string: None and '' are false.
truthy_str(s) == s # None /\ s[1] # <<>>

NL == "\n"

Digit(d) == <<"0", "1", "2", "3", "4", "5", "6", "7", "8", "9">>[d + 1]

RECURSIVE str_nat(_)
str_nat(n) == IF n < 10 THEN <<Digit(n)>>
              ELSE str_nat(n \div 10) \o <<Digit(n % 10)>>

\* str() of an integer: its decimal digits, with a leading '-' if negative.
str(n) == IF n < 0 THEN <<"-">> \o str_nat(0 - n) ELSE str_nat(n)

\* The position of the last '.' of s, 0 if it has none.
RECURSIVE rfind_dot(_, _)
rfind_dot(s, i) == IF i = 0 THEN 0
                   ELSE IF s[i] = "." THEN i
                   ELSE rfind_dot(s, i - 1)

\* s.rpartition('.')[0]: what precedes the last '.', '' if s has no '.'.
rpartition_head(s) == SubSeq(s, 1, rfind_dot(s, Len(s)) - 1)

---------------------------------------------------------------------------
(* Fixed file names, suffixes and tokens.                                  *)

infile == <<"i", "n", "f", "i", "l", "e">>

intree == <<"i", "n", "t", "r", "e", "e">>

outfile == <<"o", "u", "t", "f", "i", "l", "e">>

outtree == <<"o", "u", "t", "t", "r", "e", "e">>

cmdfname == <<".", "c", "m", "d", "f", "i", "l", "e">>

dot_out == <<".", "o", "u", "t">>

dot_tree == <<".", "t", "r", "e", "e">>

dot_boot_phy == <<".", "b", "o", "o", "t", ".", "p", "h", "y">>

dot_cons_out == <<".", "c", "o", "n", "s", ".", "o", "u", "t">>

dot_cons_tree == <<".", "c", "o", "n", "s", ".", "t", "r", "e", "e">>

phy_exec_default == "dnapars"

boot_exec_default == "seqboot"

cons_exec == "consense"

---------------------------------------------------------------------------
(* The command-script builders.                                            *)

\* A plausible slip: the seed token is left out of the bootstrap block.
_get_phy_opts_noseed(fname, seed, jumble, bootstrap, search, fname_tree) ==
    <<fname>>
    \o (IF search THEN << <<"S">>, <<"Y">> >> ELSE << <<"U">> >>)
    \o (IF ~truthy_int(bootstrap) THEN << <<"I">> >> ELSE <<>>)
    \o (IF truthy_int(bootstrap)
        THEN << <<"M">>, <<"D">>, str(bootstrap[1]), str(jumble) >>
        ELSE <<>>)
    \o << <<"4">>, <<"5">>, <<".">> >>
    \o << <<"Y">> >>
    \o (IF ~search THEN <<fname_tree, str(seed)>> ELSE <<>>)

\* A plausible slip: the richness flags are written in the wrong order.
_get_phy_opts_swapped(fname, seed, jumble, bootstrap, search, fname_tree) ==
    <<fname>>
    \o (IF search THEN << <<"S">>, <<"Y">> >> ELSE << <<"U">> >>)
    \o (IF ~truthy_int(bootstrap) THEN << <<"I">> >> ELSE <<>>)
    \o (IF truthy_int(bootstrap)
        THEN << <<"M">>, <<"D">>, str(bootstrap[1]), str(seed), str(jumble) >>
        ELSE <<>>)
    \o << <<"5">>, <<"4">>, <<".">> >>
    \o << <<"Y">> >>
    \o (IF ~search THEN <<fname_tree, str(seed)>> ELSE <<>>)

\* _get_phy_opts(fname, seed=9, jumble=1, bootstrap=False, search=True,
\* fname_tree=None): the tokens of a tree-search command script.
_get_phy_opts(fname, seed, jumble, bootstrap, search, fname_tree) ==
    <<fname>>
    \o (IF search THEN << <<"S">>, <<"Y">> >> ELSE << <<"U">> >>)
    \o (IF ~truthy_int(bootstrap) THEN << <<"I">> >> ELSE <<>>)
    \o (IF truthy_int(bootstrap)
        THEN << <<"M">>, <<"D">>, str(bootstrap[1]), str(seed), str(jumble) >>
        ELSE <<>>)
    \o << <<"4">>, <<"5">>, <<".">> >>
    \o << <<"Y">> >>
    \o (IF ~search THEN <<fname_tree, str(seed)>> ELSE <<>>)

\* str() of an optional integer; str(None) is 'None'.
str_opt(b) == IF b = None THEN <<"N", "o", "n", "e">> ELSE str(b[1])

\* _get_seqboot_opts(fname, n_bootstrap, weights=False, seed=9): the tokens
\* of a resampling command script.
_get_seqboot_opts(fname, n_bootstrap, weights, seed) ==
    <<fname, <<"R">>, str_opt(n_bootstrap)>>
    \o (IF weights THEN << <<"W">> >> ELSE <<>>)
    \o << <<"Y">>, str(seed) >>

ConsTypes == {"mre", "strict", "mr", "ml"}

\* _get_consense_opts(fname, type='mre'): the tokens of a consensus command
\* script, or a ValueError for a type that is none of the four known ones.
_get_consense_opts(fname, cons_type) ==
    IF cons_type \in ConsTypes
    THEN [raised |-> "", opts |-> <<fname, <<"Y">> >>]
    ELSE [raised |-> "ValueError", opts |-> <<>>]

\* A plausible slip: every token, the last one too, is ended by a newline.
RECURSIVE write_cmdfile_all_nl(_, _)
write_cmdfile_all_nl(opts, trailing_nl) ==
    IF opts = <<>> THEN <<>>
    ELSE Head(opts) \o <<NL>> \o write_cmdfile_all_nl(Tail(opts), trailing_nl)

\* The concatenation of arg + '\n' over a list of tokens.
RECURSIVE cat_lines(_)
cat_lines(args) ==
    IF args = <<>> THEN <<>>
    ELSE Head(args) \o <<NL>> \o cat_lines(Tail(args))

\* write_cmdfile(opts, trailing_nl=False): the text written to '.cmdfile'.
\* Every token but the last is followed by a newline; the last one is written
\* bare.  The parameter trailing_nl is never read by the code.
write_cmdfile(opts, trailing_nl) ==
    cat_lines(SubSeq(opts, 1, Len(opts) - 1)) \o opts[Len(opts)]

---------------------------------------------------------------------------
(* The working directory.                                                  *)

lexists(f, name) == name \in DOMAIN f

\* os.remove(name) on an existing file.
remove(f, name) == [n \in DOMAIN f \ {name} |-> f[n]]

\* open(name, 'w').write(data): creates or truncates.
write(f, name, data) ==
    [n \in DOMAIN f \cup {name} |-> IF n = name THEN data ELSE f[n]]

\* os.rename(src, dst) with src present: dst is replaced.
rename(f, src, dst) ==
    IF src = dst THEN f
    ELSE [n \in (DOMAIN f \ {src}) \cup {dst} |->
            IF n = dst THEN f[src] ELSE f[n]]

\* _clear_files(*lstfname): removes those of the names that exist.
_clear_files(f, lstfname) == [n \in DOMAIN f \ lstfname |-> f[n]]

FixedNames == {infile, intree, outfile, outtree}

---------------------------------------------------------------------------
(* The external programs.  A program reads its script from standard input  *)
(* and writes the fixed names outfile and outtree (seqboot: outfile only); *)
(* which of them it manages to write is its own affair.                    *)

stale_data == <<"o", "l", "d", NL>>

input_data == <<"d", "a", "t", "a", NL>>

\* What the k-th launched program writes: each run's output is its own.
log_data(k) == <<"l", "o", "g">> \o str(k) \o <<NL>>

tree_data(k) == <<"1", NL, "(", "t">> \o str(k) \o <<")", ";", NL>>

\* The files a program writes when it runs to completion.
Expected(exec) == IF exec = boot_exec_default THEN {outfile}
                  ELSE {outfile, outtree}

fresh(name, k) == IF name = outtree THEN tree_data(k) ELSE log_data(k)

\* The record of one launch: sub.Popen(exec, ...) followed by
\* p.communicate(open(cmdfname).read()).
Launch(stage, exec, f) ==
    [stage |-> stage, exec |-> exec, stdin |-> f[cmdfname],
     present |-> DOMAIN f \cap FixedNames, overlapped |-> running # {}]

\* The program launched last terminates, having written some or all or none
\* of the files it is expected to write; communicate() returns.  The command
\* file, already read, may have been removed from the directory meanwhile.
program_exits ==
    /\ pc \in {"seqboot_wait", "phylip_wait", "consense_wait", "cleanup_wait"}
    /\ \E exec \in running :
         \E produced \in SUBSET Expected(exec), gone \in SUBSET {cmdfname} :
            /\ running' = running \ {exec}
            /\ fs' = [n \in (DOMAIN fs \cup produced) \ gone |->
                        IF n \in produced THEN fresh(n, Len(launched))
                        ELSE fs[n]]
    /\ pc' = CASE pc = "seqboot_wait" -> "seqboot_exit"
               [] pc = "phylip_wait" -> "phylip_exit"
               [] pc = "consense_wait" -> "consense_exit"
               [] pc = "cleanup_wait" -> "cleanup_exit"
    /\ UNCHANGED <<top, loc, launched, err, ret, inp, out>>

---------------------------------------------------------------------------
(* The stages.                                                             *)

nested == top.fn = "run_phylip"

\* An exception leaves the stage and, there being no handler that does not
\* re-raise, the entry point.
Raise(e) == /\ pc' = "raised"
            /\ err' = e
            /\ UNCHANGED <<top, loc, running, launched, ret, inp, out>>

\* A plausible slip: the bootstrap branch is never taken, so that the tree
\* search comes first, on the input itself.
run_phylip_enter_search_first ==
    /\ pc = "run_phylip"
    /\ loc' = [loc EXCEPT !.fname = top.fname, !.phy_in_orig = top.fname]
    /\ pc' = "tree_search"
    /\ UNCHANGED <<top, fs, running, launched, err, ret, inp, out>>

\* run_phylip up to its first stage: with bootstrap it calls run_seqboot on
\* the input, without it goes on to the tree search on the input.
run_phylip_enter ==
    /\ pc = "run_phylip"
    /\ loc' = [loc EXCEPT !.fname = top.fname, !.phy_in_orig = top.fname]
    /\ pc' = IF truthy_int(top.bootstrap) THEN "run_seqboot"
             ELSE "tree_search"
    /\ UNCHANGED <<top, fs, running, launched, err, ret, inp, out>>

\* run_seqboot up to the launch of seqboot.
run_seqboot_launch ==
    /\ pc = "run_seqboot"
    /\ LET seqboot_opts == _get_seqboot_opts(loc.fname, top.bootstrap, FALSE,
                                             top.seed)
           cleared == _clear_files(fs, {outfile})
           written == write(cleared, cmdfname,
                            write_cmdfile(seqboot_opts, FALSE))
       IN  /\ fs' = written
           /\ launched' = Append(launched,
                            Launch("run_seqboot", boot_exec_default, written))
           /\ running' = running \cup {boot_exec_default}
    /\ pc' = "seqboot_wait"
    /\ UNCHANGED <<top, loc, err, ret, inp, out>>

\* A plausible slip: a missing outfile is swallowed and the stage goes on.
run_seqboot_finish_swallow ==
    /\ pc = "seqboot_exit"
    /\ LET basename == rpartition_head(loc.fname)
           bootname == basename \o dot_boot_phy
           renamed == IF lexists(fs, outfile)
                      THEN rename(fs, outfile, bootname) ELSE fs
       IN  /\ fs' = _clear_files(renamed, {cmdfname})
           /\ IF nested
              THEN /\ pc' = "tree_search"
                   /\ loc' = [loc EXCEPT !.fname = bootname]
                   /\ ret' = ret
              ELSE /\ pc' = "returned"
                   /\ loc' = loc
                   /\ ret' = Some(bootname)
           /\ UNCHANGED <<top, running, launched, err, inp, out>>

\* run_seqboot after seqboot has terminated.
run_seqboot_finish ==
    /\ pc = "seqboot_exit"
    /\ LET basename == rpartition_head(loc.fname)
           bootname == basename \o dot_boot_phy
           renamed == rename(fs, outfile, bootname)
       IN  IF ~lexists(fs, outfile)
           THEN Raise("OSError") /\ fs' = fs
           ELSE IF ~lexists(renamed, cmdfname)
           THEN Raise("OSError") /\ fs' = renamed
           ELSE /\ fs' = remove(renamed, cmdfname)
                /\ IF nested
                   THEN /\ pc' = "tree_search"
                        /\ loc' = [loc EXCEPT !.fname = bootname]
                        /\ ret' = ret
                   ELSE /\ pc' = "returned"
                        /\ loc' = loc
                        /\ ret' = Some(bootname)
                /\ UNCHANGED <<top, running, launched, err, inp, out>>

\* run_phylip from the removal of old files to the launch of the tree-search
\* program.
run_phylip_launch ==
    /\ pc = "tree_search"
    /\ LET lst_phy_opts == _get_phy_opts(loc.fname, top.seed, top.jumble,
                                         top.bootstrap, TRUE, None)
           cleared == _clear_files(fs, {infile, outfile, outtree})
           written == write(cleared, cmdfname,
                            write_cmdfile(lst_phy_opts, FALSE))
       IN  /\ fs' = written
           /\ launched' = Append(launched,
                            Launch("run_phylip", phy_exec_default, written))
           /\ running' = running \cup {phy_exec_default}
    /\ pc' = "phylip_wait"
    /\ UNCHANGED <<top, loc, err, ret, inp, out>>

\* run_phylip after the tree-search program has terminated, up to its return
\* or to its call of run_consense.
run_phylip_finish ==
    /\ pc = "phylip_exit"
    /\ LET basename == rpartition_head(loc.fname)
           outname == basename \o dot_out
           treename == basename \o dot_tree
           renamed1 == rename(fs, outfile, outname)
           renamed2 == rename(renamed1, outtree, treename)
       IN  IF ~lexists(fs, outfile)
           THEN Raise("OSError") /\ fs' = fs
           ELSE IF ~lexists(renamed1, outtree)
           THEN Raise("OSError") /\ fs' = renamed1
           ELSE IF ~lexists(renamed2, cmdfname)
           THEN Raise("OSError") /\ fs' = renamed2
           ELSE /\ fs' = remove(renamed2, cmdfname)
                /\ IF truthy_int(top.bootstrap)
                   THEN /\ pc' = "run_consense"
                        /\ loc' = [loc EXCEPT !.fname = basename \o dot_tree]
                        /\ ret' = ret
                   ELSE /\ pc' = "returned"
                        /\ loc' = loc
                        /\ ret' = Some(treename)
                /\ UNCHANGED <<top, running, launched, err, inp, out>>

\* run_consense up to the launch of consense; the options are built, and an
\* unknown consensus type rejected, first.
run_consense_launch ==
    /\ pc = "run_consense"
    /\ LET consense_opts == _get_consense_opts(loc.fname, top.type)
           cleared == _clear_files(fs, {intree, outfile, outtree})
           written == write(cleared, cmdfname,
                            write_cmdfile(consense_opts.opts, FALSE))
       IN  IF consense_opts.raised # ""
           THEN Raise(consense_opts.raised) /\ fs' = fs
           ELSE /\ fs' = written
                /\ launched' = Append(launched,
                                 Launch("run_consense", cons_exec, written))
                /\ running' = running \cup {cons_exec}
                /\ pc' = "consense_wait"
                /\ UNCHANGED <<top, loc, err, ret, inp, out>>

\* run_consense after consense has terminated.
run_consense_finish ==
    /\ pc = "consense_exit"
    /\ LET basename == rpartition_head(loc.fname)
           outname == basename \o dot_cons_out
           treename == basename \o dot_cons_tree
           renamed1 == rename(fs, outfile, outname)
           renamed2 == rename(renamed1, outtree, treename)
       IN  IF ~lexists(fs, outfile)
           THEN Raise("OSError") /\ fs' = fs
           ELSE IF ~lexists(renamed1, outtree)
           THEN Raise("OSError") /\ fs' = renamed1
           ELSE /\ fs' = _clear_files(renamed2, {cmdfname})
                /\ IF nested
                   THEN /\ pc' = "cleanup_consense"
                        /\ loc' = [loc EXCEPT !.fname = treename]
                        /\ ret' = ret
                   ELSE /\ pc' = "returned"
                        /\ loc' = loc
                        /\ ret' = Some(treename)
                /\ UNCHANGED <<top, running, launched, err, inp, out>>

seed_default == 9

jumble_default == 1

\* The text of s after its first line.
RECURSIVE drop_line(_)
drop_line(s) == IF s = <<>> THEN <<>>
                ELSE IF Head(s) = NL THEN Tail(s)
                ELSE drop_line(Tail(s))

RECURSIVE drop_lines(_, _)
drop_lines(s, n) == IF n <= 0 THEN s ELSE drop_lines(drop_line(s), n - 1)

\* _strip_first_lines(fname_in, n_lines=1, fname_out=fname_in): the output is
\* opened (created or truncated) before the input; nothing at all is done
\* when the two names are the same.
_strip_first_lines(f, fname_in, n_lines, fname_out) ==
    IF fname_in = fname_out THEN [raised |-> "", fs |-> f]
    ELSE LET opened == write(f, fname_out, <<>>)
         IN  IF ~lexists(opened, fname_in)
             THEN [raised |-> "IOError", fs |-> opened]
             ELSE [raised |-> "",
                   fs |-> write(opened, fname_out,
                                drop_lines(opened[fname_in], n_lines))]

\* cleanup_consense up to the launch of the tree-search program on the user
\* tree fname_consensus and the original alignment phy_orig.
cleanup_consense_launch ==
    /\ pc = "cleanup_consense"
    /\ LET lst_phy_opts == _get_phy_opts(loc.phy_in_orig, seed_default,
                                         jumble_default, None, FALSE,
                                         loc.fname)
           cleared == _clear_files(fs, {infile, intree, outfile, outtree})
           written == write(cleared, cmdfname,
                            write_cmdfile(lst_phy_opts, FALSE))
       IN  /\ fs' = written
           /\ launched' = Append(launched,
                            Launch("cleanup_consense", phy_exec_default,
                                   written))
           /\ running' = running \cup {phy_exec_default}
    /\ pc' = "cleanup_wait"
    /\ UNCHANGED <<top, loc, err, ret, inp, out>>

\* A variant that names the corrected outputs after the consensus tree it
\* is given, not after the original alignment.
cleanup_consense_finish_from_tree ==
    /\ pc = "cleanup_exit"
    /\ LET basename == rpartition_head(rpartition_head(loc.fname))
           outname == basename \o dot_out
           treename == basename \o dot_tree
           renamed == rename(fs, outfile, outname)
           stripped == _strip_first_lines(renamed, outtree, 1, treename)
       IN  IF ~lexists(fs, outfile)
           THEN Raise("OSError") /\ fs' = fs
           ELSE IF stripped.raised # ""
           THEN Raise(stripped.raised) /\ fs' = stripped.fs
           ELSE IF ~lexists(stripped.fs, cmdfname)
           THEN Raise("OSError") /\ fs' = stripped.fs
           ELSE /\ fs' = remove(stripped.fs, cmdfname)
                /\ pc' = "returned"
                /\ ret' = Some(treename)
                /\ UNCHANGED <<top, loc, running, launched, err, inp, out>>

\* cleanup_consense after the program has terminated; run_phylip, when it is
\* the caller, returns the same name.
cleanup_consense_finish ==
    /\ pc = "cleanup_exit"
    /\ LET basename == rpartition_head(loc.phy_in_orig)
           outname == basename \o dot_out
           treename == basename \o dot_tree
           renamed == rename(fs, outfile, outname)
           stripped == _strip_first_lines(renamed, outtree, 1, treename)
       IN  IF ~lexists(fs, outfile)
           THEN Raise("OSError") /\ fs' = fs
           ELSE IF stripped.raised # ""
           THEN Raise(stripped.raised) /\ fs' = stripped.fs
           ELSE IF ~lexists(stripped.fs, cmdfname)
           THEN Raise("OSError") /\ fs' = stripped.fs
           ELSE /\ fs' = remove(stripped.fs, cmdfname)
                /\ pc' = "returned"
                /\ ret' = Some(treename)
                /\ UNCHANGED <<top, loc, running, launched, err, inp, out>>

---------------------------------------------------------------------------
(* The calls.  Spec: one call of an entry point (run_phylip, run_seqboot,  *)
(* run_consense or cleanup_consense) in a working directory that may hold  *)
(* any of the fixed-name files from an earlier run.                        *)

X_phy == <<"X", ".", "p", "h", "y">>

r_1_phy == <<"r", ".", "1", ".", "p", "h", "y">>

PhyNames == {X_phy, r_1_phy}

dot_boot == <<".", "b", "o", "o", "t">>

\* Names of consensus trees, as run_consense derives them.
TreeNames == {rpartition_head(n) \o dot_boot \o dot_cons_tree :
                n \in PhyNames}

\* Names of replicate-tree files, as run_phylip derives them.
BootTreeNames == {rpartition_head(n) \o dot_boot \o dot_tree :
                    n \in PhyNames}

Seeds == {seed_default, MaxSeed}

Jumbles == jumble_default .. MaxJumble

Bootstraps == {None} \cup {Some(n) : n \in 0 .. MaxBootstrap}

Types == ConsTypes \cup {"unknown"}

Calls ==
    [fn : {"run_phylip"}, fname : PhyNames, phy_orig : {None},
     bootstrap : Bootstraps, seed : Seeds, jumble : Jumbles, type : Types]
    \cup
    [fn : {"run_seqboot"}, fname : PhyNames, phy_orig : {None},
     bootstrap : Bootstraps, seed : Seeds, jumble : {jumble_default},
     type : {"mre"}]
    \cup
    [fn : {"run_consense"}, fname : BootTreeNames, phy_orig : {None},
     bootstrap : {None}, seed : {seed_default}, jumble : {jumble_default},
     type : Types]
    \cup
    [fn : {"cleanup_consense"}, fname : TreeNames, phy_orig : PhyNames,
     bootstrap : {None}, seed : {seed_default}, jumble : {jumble_default},
     type : {"mre"}]

NoCall == [fn |-> "", fname |-> None, phy_orig |-> None, bootstrap |-> None,
           seed |-> seed_default, jumble |-> jumble_default, type |-> "mre"]

Init ==
    /\ top \in Calls
    /\ pc = top.fn
    /\ loc = [fname |-> top.fname, phy_in_orig |-> top.phy_orig]
    /\ \E old \in SUBSET FixedNames :
         fs = [n \in old \cup PhyNames \cup {top.fname} |->
                 IF n \in old THEN stale_data ELSE input_data]
    /\ running = {}
    /\ launched = <<>>
    /\ err = ""
    /\ ret = None
    /\ inp = None
    /\ out = None

Next ==
    \/ run_phylip_enter
    \/ run_seqboot_launch
    \/ run_seqboot_finish
    \/ run_phylip_launch
    \/ run_phylip_finish
    \/ run_consense_launch
    \/ run_consense_finish
    \/ cleanup_consense_launch
    \/ cleanup_consense_finish
    \/ program_exits

Spec == Init /\ [][Next]_vars

---------------------------------------------------------------------------
(* SpecOpts: one call of _get_phy_opts on arbitrary arguments.             *)

InitOpts ==
    /\ inp \in [fname : PhyNames, seed : Seeds, jumble : Jumbles,
                bootstrap : Bootstraps, search : BOOLEAN,
                fname_tree : TreeNames]
    /\ out = None
    /\ top = NoCall
    /\ pc = ""
    /\ loc = [fname |-> None, phy_in_orig |-> None]
    /\ fs = <<>>
    /\ running = {}
    /\ launched = <<>>
    /\ err = ""
    /\ ret = None

get_phy_opts_call ==
    /\ out = None
    /\ out' = _get_phy_opts(inp.fname, inp.seed, inp.jumble, inp.bootstrap,
                            inp.search, inp.fname_tree)
    /\ UNCHANGED <<pipevars, inp>>

NextOpts == get_phy_opts_call

SpecOpts == InitOpts /\ [][NextOpts]_vars

---------------------------------------------------------------------------
(* The converter.  A table row is a record of its columns; set_header_rev  *)
(* has chosen the columns holding the identifier (id), the sequence (seq)  *)
(* and the clone (clone).                                                  *)

\* A plausible slip: fullmatch() instead of match().
RECURSIVE re_fullmatch(_, _)
re_fullmatch(pat, s) ==
    IF pat = <<>> THEN s = <<>>
    ELSE IF Head(pat) = "$" THEN s = <<>> /\ re_fullmatch(Tail(pat), s)
    ELSE /\ s # <<>>
         /\ (Head(pat) = "." \/ Head(pat) = Head(s))
         /\ re_fullmatch(Tail(pat), Tail(s))

\* re.compile(pat, 0).match(s) for patterns made of literal characters, `.`
\* (any character) and `$` (end of the text): the pattern is matched from
\* position 0 and need not reach the end of s.
RECURSIVE re_match(_, _)
re_match(pat, s) ==
    IF pat = <<>> THEN TRUE
    ELSE IF Head(pat) = "$" THEN s = <<>> /\ re_match(Tail(pat), s)
    ELSE /\ s # <<>>
         /\ (Head(pat) = "." \/ Head(pat) = Head(s))
         /\ re_match(Tail(pat), Tail(s))

\* _filter_match(iter_entries, (col, str_match), flags): the entries whose
\* column col matches, in their order.
RECURSIVE _filter_match(_, _)
_filter_match(iter_entries, tpl_match) ==
    IF iter_entries = <<>> THEN <<>>
    ELSE LET entry == Head(iter_entries)
             rest == _filter_match(Tail(iter_entries), tpl_match)
         IN  IF re_match(tpl_match[2], entry[tpl_match[1]])
             THEN <<entry>> \o rest
             ELSE rest

\* The loop of _filter_entries: one _filter_match after the other.
RECURSIVE filter_all(_, _)
filter_all(lst_entries, match) ==
    IF match = <<>> THEN lst_entries
    ELSE filter_all(_filter_match(lst_entries, Head(match)), Tail(match))

\* _filter_entries(lst_entries, **kwarg): match is kwarg.pop('match', list());
\* len(match) fails on None.
_filter_entries(lst_entries, has_match, match_kw) ==
    LET match == IF has_match THEN match_kw ELSE Some(<<>>)
    IN  IF match = None
        THEN [raised |-> "TypeError", entries |-> <<>>]
        ELSE IF Len(match[1]) = 0
        THEN [raised |-> "", entries |-> lst_entries]
        ELSE [raised |-> "", entries |-> filter_all(lst_entries, match[1])]

\* _gather_entries_iter(lst_file): the rows of each table, file after file.
RECURSIVE _gather_entries_iter(_)
_gather_entries_iter(tables) ==
    IF tables = <<>> THEN <<>>
    ELSE Head(tables) \o _gather_entries_iter(Tail(tables))

\* s[-9:]
\* A variant that keeps the first nine characters of an identifier.
first9(s) == SubSeq(s, 1, IF Len(s) > 9 THEN 9 ELSE Len(s))

last9(s) == SubSeq(s, IF Len(s) > 9 THEN Len(s) - 8 ELSE 1, Len(s))

\* _entry2seqpair(entry)
_entry2seqpair(entry) == <<last9(entry["id"]), entry["seq"]>>

RECURSIVE spaces(_)
spaces(n) == IF n <= 0 THEN <<>> ELSE <<" ">> \o spaces(n - 1)

\* s.ljust(10, ' ')
ljust10(s) == s \o spaces(10 - Len(s))

\* _phyrow(name, sequence), on texts; the caller's numbers go through str().
_phyrow(name, sequence) == ljust10(name) \o sequence \o <<NL>>

Germline == <<"G", "e", "r", "m", "l", "i", "n", "e">>

RECURSIVE phyrows(_)
phyrows(lst_seqpair) ==
    IF lst_seqpair = <<>> THEN <<>>
    ELSE _phyrow(Head(lst_seqpair)[1], Head(lst_seqpair)[2])
         \o phyrows(Tail(lst_seqpair))

\* lst_entries2phy(lst_dict_entries, outfile, germline=None) in directory f:
\* the error it raises, if any, and the directory it leaves.
lst_entries2phy(f, lst_dict_entries, out_name, germline) ==
    LET pairs == [i \in DOMAIN lst_dict_entries |->
                    _entry2seqpair(lst_dict_entries[i])]
        lst_seqpair == IF truthy_str(germline)
                       THEN << <<Germline, germline[1]>> >> \o pairs
                       ELSE pairs
        n_seq == Len(lst_seqpair)
        len_seq == Len(lst_seqpair[1][2])
    IN  IF n_seq = 0 THEN [raised |-> "ValueError", fs |-> f]
        ELSE IF \E i \in DOMAIN lst_seqpair : Len(lst_seqpair[i][2]) # len_seq
        THEN [raised |-> "ValueError", fs |-> f]
        ELSE [raised |-> "",
              fs |-> write(f, out_name,
                           _phyrow(str(n_seq), str(len_seq))
                           \o phyrows(lst_seqpair))]

dot_phy == <<".", "p", "h", "y">>

file_phy == <<"f", "i", "l", "e", ".", "p", "h", "y">>

\* tab2phy(lst_tabfile, germline=None, outfile=None, **kwarg) in directory f,
\* tables being the rows of the files of lst_tabfile.  The germline argument
\* is not handed on to lst_entries2phy.
tab2phy(f, lst_tabfile, tables, germline, out_name, has_match, match_kw) ==
    LET iter_dict_all_entries == _gather_entries_iter(tables)
        filtered == _filter_entries(iter_dict_all_entries, has_match,
                                    match_kw)
        target == IF out_name = None /\ Len(lst_tabfile) = 1
                  THEN rpartition_head(lst_tabfile[1]) \o dot_phy
                  ELSE IF out_name = None THEN file_phy
                  ELSE out_name[1]
    IN  IF filtered.raised # ""
        THEN [raised |-> filtered.raised, fs |-> f]
        ELSE lst_entries2phy(f, filtered.entries, target, None)

---------------------------------------------------------------------------
(* SpecConv: one call of tab2phy, of lst_entries2phy or of                 *)
(* _filter_entries on tables of at most MaxRows rows.                      *)

Rows ==
    { [id |-> <<"c", "l", "o", "n", "e", "0", "0", "0", "0", "0", "0", "1">>,
       seq |-> <<"A", "C">>, clone |-> <<"c", "1">>],
      [id |-> <<"s", "2">>, seq |-> <<"A", "G">>, clone |-> <<"c", "2">>],
      [id |-> <<"s", "3">>, seq |-> <<"A", "C", "G">>,
       clone |-> <<"c", "1">>] }

\* The lists of at most n rows.
RowLists(n) == UNION {[1 .. k -> Rows] : k \in 0 .. n}

t_tab == <<"t", ".", "t", "a", "b">>

u_tab == <<"u", ".", "t", "a", "b">>

\* One table of up to MaxRows rows, or two tables of one row each.
TableLists ==
    {<<t>> : t \in RowLists(MaxRows)}
    \cup {<<t, u>> : t \in [1 .. 1 -> Rows], u \in [1 .. 1 -> Rows]}

TabNames(tables) == IF Len(tables) = 1 THEN <<t_tab>> ELSE <<t_tab, u_tab>>

\* The (column, regex) lists tried.
MatchLists ==
    { <<>>,
      << <<"clone", <<"c", "1">> >> >>,
      << <<"clone", <<"c">> >> >>,
      << <<"clone", <<"c", "$">> >> >>,
      << <<"id", <<"s", ".">> >> >>,
      << <<"id", <<"s">> >>, <<"clone", <<".", "1">> >> >>,
      << <<"clone", <<"c", "1", "$">> >>, <<"seq", <<"A", "C", "$">> >> >> }

Germlines == {None, Some(<<>>), Some(<<"A", "C">>), Some(<<"A", "C", "G">>)}

o_phy == <<"o", ".", "p", "h", "y">>

\* The working directory before the call: empty, or holding a file under
\* each name the call may write to.
OldOutputs(existing) ==
    IF existing
    THEN [n \in {o_phy, file_phy, rpartition_head(t_tab) \o dot_phy} |->
            stale_data]
    ELSE <<>>

InitConv ==
    /\ inp \in [fn : {"tab2phy", "lst_entries2phy", "_filter_entries"},
                tables : TableLists,
                has_match : BOOLEAN,
                match : {None} \cup {Some(m) : m \in MatchLists},
                germline : Germlines,
                outfile : {None, Some(o_phy)},
                existing : BOOLEAN]
    /\ inp.fn = "_filter_entries" =>
          inp.germline = None /\ inp.outfile = None
    /\ inp.fn = "lst_entries2phy" =>
          ~inp.has_match /\ inp.outfile # None
    /\ ~inp.has_match => inp.match = Some(<<>>)
    /\ inp.fn = "_filter_entries" => ~inp.existing
    /\ out = None
    /\ fs = OldOutputs(inp.existing)
    /\ err = ""
    /\ top = NoCall
    /\ pc = "call"
    /\ loc = [fname |-> None, phy_in_orig |-> None]
    /\ running = {}
    /\ launched = <<>>
    /\ ret = None

\* A call of tab2phy(lst_tabfile, germline=..., outfile=..., match=...).
tab2phy_call ==
    /\ pc = "call" /\ inp.fn = "tab2phy"
    /\ LET r == tab2phy(fs, TabNames(inp.tables), inp.tables, inp.germline,
                        inp.outfile, inp.has_match, inp.match)
       IN  /\ fs' = r.fs
           /\ err' = r.raised
           /\ pc' = IF r.raised = "" THEN "returned" ELSE "raised"
    /\ UNCHANGED <<top, loc, running, launched, ret, inp, out>>

\* A call of lst_entries2phy(lst_dict_entries, outfile, germline=...).
lst_entries2phy_call ==
    /\ pc = "call" /\ inp.fn = "lst_entries2phy"
    /\ LET r == lst_entries2phy(fs, _gather_entries_iter(inp.tables),
                                inp.outfile[1], inp.germline)
       IN  /\ fs' = r.fs
           /\ err' = r.raised
           /\ pc' = IF r.raised = "" THEN "returned" ELSE "raised"
    /\ UNCHANGED <<top, loc, running, launched, ret, inp, out>>

\* A call of _filter_entries(entries, match=...) on the gathered rows.
filter_entries_call ==
    /\ pc = "call" /\ inp.fn = "_filter_entries"
    /\ LET r == _filter_entries(_gather_entries_iter(inp.tables),
                                inp.has_match, inp.match)
       IN  /\ out' = IF r.raised = "" THEN Some(r.entries) ELSE None
           /\ err' = r.raised
           /\ pc' = IF r.raised = "" THEN "returned" ELSE "raised"
    /\ UNCHANGED <<top, loc, fs, running, launched, ret, inp>>

NextConv == tab2phy_call \/ lst_entries2phy_call \/ filter_entries_call

SpecConv == InitConv /\ [][NextConv]_vars

---------------------------------------------------------------------------
(* Properties of the command scripts.                                      *)

Range(q) == {q[i] : i \in DOMAIN q}

\* Bootstrap mode: a replicate count was given and is not zero.
BootMode(b) == b # None /\ b[1] # 0

\* The script as the specification describes it: in user-tree mode the tree
\* file name and the seed follow `U` at once, and come again after `Y`.
ScriptAsSpecified(a) ==
    <<a.fname>>
    \o (IF a.search THEN << <<"S">>, <<"Y">> >>
        ELSE << <<"U">>, a.fname_tree, str(a.seed) >>)
    \o (IF BootMode(a.bootstrap)
        THEN << <<"M">>, <<"D">>, str(a.bootstrap[1]), str(a.seed),
                str(a.jumble) >>
        ELSE << <<"I">> >>)
    \o << <<"4">>, <<"5">>, <<".">>, <<"Y">> >>
    \o (IF a.search THEN <<>> ELSE << a.fname_tree, str(a.seed) >>)

\* The script with `U` alone after the file name in user-tree mode.
ScriptAsBuilt(a) ==
    <<a.fname>>
    \o (IF a.search THEN << <<"S">>, <<"Y">> >> ELSE << <<"U">> >>)
    \o (IF BootMode(a.bootstrap)
        THEN << <<"M">>, <<"D">>, str(a.bootstrap[1]), str(a.seed),
                str(a.jumble) >>
        ELSE << <<"I">> >>)
    \o << <<"4">>, <<"5">>, <<".">>, <<"Y">> >>
    \o (IF a.search THEN <<>> ELSE << a.fname_tree, str(a.seed) >>)

\* C1 as stated: the script built by _get_phy_opts is the file name; `S`,`Y`
\* or `U`, tree file name, seed; `I` or `M`,`D`,count,seed,jumble count;
\* `4`,`5`,`.`; `Y`; and in user-tree mode the tree file name and the seed
\* again.  The code writes `U` alone, so this fails in user-tree mode.
C1_ScriptAsSpecified == out # None => out = ScriptAsSpecified(inp)

\* C1, amended: the script built by _get_phy_opts is, in order, the file
\* name; `S`,`Y` in search mode or `U` alone in user-tree mode; `I` if not in
\* bootstrap mode, else `M`,`D`,count,seed,jumble count; `4`,`5`,`.`; `Y`;
\* and, only in user-tree mode, the tree file name and the seed, once.
C1_ScriptAsBuilt == out # None => out = ScriptAsBuilt(inp)

\* A user-tree script for a bootstrap run has been built.
C1_Witness == out # None /\ ~inp.search /\ BootMode(inp.bootstrap)

\* C2: after the file name, a script for a positive replicate count holds
\* `M`, `D`, the count and the seed (one after the other); a script for no
\* count, None or 0 holds neither `M` nor `D` and holds `I`.
C2_BootstrapTokens ==
    out # None =>
      LET rest == Tail(out)
          b == inp.bootstrap
      IN  /\ (b # None /\ b[1] > 0) =>
                \E i \in 1 .. Len(rest) - 3 :
                   /\ rest[i] = <<"M">>
                   /\ rest[i + 1] = <<"D">>
                   /\ rest[i + 2] = str(b[1])
                   /\ rest[i + 3] = str(inp.seed)
          /\ (b = None \/ b[1] = 0) =>
                /\ <<"M">> \notin Range(rest)
                /\ <<"D">> \notin Range(rest)
                /\ <<"I">> \in Range(rest)

\* A search script for a positive replicate count has been built.
C2_Witness == out # None /\ inp.search /\ inp.bootstrap # None
              /\ inp.bootstrap[1] > 0

---------------------------------------------------------------------------
(* Properties of the stages.                                               *)

\* text.split('\n'): the pieces of a text between its newlines.
RECURSIVE SplitAcc(_, _)
SplitAcc(s, piece) ==
    IF s = <<>> THEN <<piece>>
    ELSE IF Head(s) = NL THEN <<piece>> \o SplitAcc(Tail(s), <<>>)
    ELSE SplitAcc(Tail(s), Append(piece, Head(s)))

Split(s) == SplitAcc(s, <<>>)

Waiting == pc \in {"seqboot_wait", "phylip_wait", "consense_wait",
                   "cleanup_wait"}

\* The tokens the stage whose program is running built for it.
StageOpts ==
    CASE pc = "seqboot_wait" ->
           _get_seqboot_opts(loc.fname, top.bootstrap, FALSE, top.seed)
      [] pc = "phylip_wait" ->
           _get_phy_opts(loc.fname, top.seed, top.jumble, top.bootstrap,
                         TRUE, None)
      [] pc = "consense_wait" ->
           _get_consense_opts(loc.fname, top.type).opts
      [] pc = "cleanup_wait" ->
           _get_phy_opts(loc.phy_in_orig, seed_default, jumble_default, None,
                         FALSE, loc.fname)

\* C3 as stated: the command file holds one token per line; its last token
\* has no newline after it for the tree-search and resampling stages and has
\* one for the consensus stage.  The code never writes the last newline.
C3_ConsensusKeepsNewline ==
    Waiting =>
      IF pc = "consense_wait"
      THEN Split(fs[cmdfname]) = Append(StageOpts, <<>>)
      ELSE Split(fs[cmdfname]) = StageOpts

\* C3, amended: the command file written for a stage holds one token per
\* line, and its last token is written without a trailing newline for every
\* stage, the consensus stage included.
C3_NoTrailingNewline == Waiting => Split(fs[cmdfname]) = StageOpts

\* consense is running on the command file written for it.
C3_Witness == pc = "consense_wait" /\ lexists(fs, cmdfname)

\* C4: an unknown consensus type is rejected before any external program is
\* launched, in run_consense and in run_phylip with bootstrap.  In run_phylip
\* the type is looked at only once seqboot and the tree search have run.
C4_RejectedBeforeAnyLaunch ==
    (/\ top.type \notin ConsTypes
     /\ \/ top.fn = "run_consense"
        \/ top.fn = "run_phylip" /\ truthy_int(top.bootstrap))
    => launched = <<>>

\* C5: when a stage launches its program, none of infile, intree, outfile,
\* outtree exists.  Each stage removes only some of the four.
C5_NoFixedNameAtLaunch ==
    \A i \in DOMAIN launched : launched[i].present = {}

\* C6: a stage whose program left outfile or outtree unwritten raises and
\* returns nothing; otherwise both are moved to the stage's own names and
\* neither remains.  cleanup_consense copies outtree and leaves it.
C6_OutputsRelocated ==
    /\ pc = "raised" => ret = None
    /\ (pc = "returned" /\ top.fn # "run_seqboot") =>
          /\ ret # None
          /\ ~lexists(fs, outfile)
          /\ ~lexists(fs, outtree)

\* What a launch was: the program, the file named first in its script, and
\* the token after it (`S` search, `U` user tree, `R` resampling, `Y`).
Did(l) == [exec |-> l.exec, input |-> Split(l.stdin)[1],
           key |-> Split(l.stdin)[2]]

DidAll(q) == [i \in DOMAIN q |-> Did(q[i])]

IsPrefix(a, b) == Len(a) <= Len(b) /\ a = SubSeq(b, 1, Len(a))

SearchOn(name) == [exec |-> phy_exec_default, input |-> name, key |-> <<"S">>]

ResampleOn(name) == [exec |-> boot_exec_default, input |-> name,
                     key |-> <<"R">>]

ConsensusOn(name) == [exec |-> cons_exec, input |-> name, key |-> <<"Y">>]

CorrectOn(name) == [exec |-> phy_exec_default, input |-> name,
                    key |-> <<"U">>]

\* The launches of a run_phylip call as the specification orders them.
OrderAsSpecified ==
    LET base == rpartition_head(top.fname)
    IN  IF BootMode(top.bootstrap)
        THEN << SearchOn(top.fname), ResampleOn(top.fname),
                SearchOn(base \o dot_boot_phy),
                ConsensusOn(base \o dot_boot \o dot_tree),
                CorrectOn(top.fname) >>
        ELSE << SearchOn(top.fname) >>

\* The launches of a run_phylip call without the first search of a
\* bootstrap run.
OrderAsBuilt ==
    LET base == rpartition_head(top.fname)
    IN  IF BootMode(top.bootstrap)
        THEN << ResampleOn(top.fname),
                SearchOn(base \o dot_boot_phy),
                ConsensusOn(base \o dot_boot \o dot_tree),
                CorrectOn(top.fname) >>
        ELSE << SearchOn(top.fname) >>

Awaited == /\ Cardinality(running) <= 1
           /\ \A i \in DOMAIN launched : ~launched[i].overlapped

\* C7 as stated: run_phylip with bootstrap launches, each awaited before the
\* next, the tree search on the input, the resampling, the tree search on the
\* replicates, the consensus and the correction on the input; without
\* bootstrap, one tree search, whose tree it returns.  The code starts a
\* bootstrap run with the resampling.
C7_OrderAsSpecified ==
    top.fn = "run_phylip" =>
      /\ Awaited
      /\ IsPrefix(DidAll(launched), OrderAsSpecified)
      /\ pc = "returned" =>
           /\ DidAll(launched) = OrderAsSpecified
           /\ ~BootMode(top.bootstrap) =>
                ret = Some(rpartition_head(top.fname) \o dot_tree)

\* C7, amended: run_phylip with bootstrap launches, each awaited before the
\* next starts, exactly: the resampling of the input, the tree search on
\* the replicate set, the consensus, and the branch-length correction on the
\* original input; without bootstrap it launches exactly one tree search and
\* returns that tree.
C7_OrderAsBuilt ==
    top.fn = "run_phylip" =>
      /\ Awaited
      /\ IsPrefix(DidAll(launched), OrderAsBuilt)
      /\ pc = "returned" =>
           /\ DidAll(launched) = OrderAsBuilt
           /\ ~BootMode(top.bootstrap) =>
                ret = Some(rpartition_head(top.fname) \o dot_tree)

\* A bootstrap run of run_phylip has returned.
C7_Witness == top.fn = "run_phylip" /\ BootMode(top.bootstrap)
              /\ pc = "returned" /\ Len(launched) = 4

\* A stage has failed: its program left an expected file unwritten, or the
\* consensus type is not a known one.
StageFailed ==
    \/ pc = "seqboot_exit" /\ ~lexists(fs, outfile)
    \/ /\ pc \in {"phylip_exit", "consense_exit", "cleanup_exit"}
       /\ ~(lexists(fs, outfile) /\ lexists(fs, outtree))
    \/ pc = "run_consense" /\ top.type \notin ConsTypes

\* C8: when a stage fails the call ends there with an error: nothing is
\* launched by that step, no tree name is returned, and nothing at all
\* happens after the error (no later stage, no retry).
C8_FailureStops ==
    [][/\ pc # "raised"
       /\ StageFailed =>
            /\ pc' = "raised"
            /\ err' # ""
            /\ ret' = None
            /\ launched' = launched
            /\ running' = {}]_vars

\* A bootstrap run of run_phylip has ended with the error of its third
\* stage, the consensus.
C8_Witness == top.fn = "run_phylip" /\ pc = "raised" /\ err = "OSError"
              /\ Len(launched) = 3 /\ ret = None

---------------------------------------------------------------------------
(* Properties of the converter.                                            *)

\* The file the call writes to.
Target == IF inp.outfile # None THEN inp.outfile[1]
          ELSE IF Len(inp.tables) = 1 THEN <<"t">> \o dot_phy
          ELSE file_phy

\* The count field of a header line: what precedes its first space.
RECURSIVE UpToSpace(_)
UpToSpace(s) == IF s = <<>> \/ Head(s) = " " THEN <<>>
                ELSE <<Head(s)>> \o UpToSpace(Tail(s))

\* A pattern matches a text from position 0: the pattern less its final `$`
\* fits the text's first characters, which are all of the text if the
\* pattern ends in `$`.
MatchesFromStart(pat, s) ==
    LET anchored == pat # <<>> /\ pat[Len(pat)] = "$"
        body == IF anchored THEN SubSeq(pat, 1, Len(pat) - 1) ELSE pat
    IN  /\ Len(body) <= Len(s)
        /\ \A i \in DOMAIN body : body[i] = "." \/ body[i] = s[i]
        /\ anchored => Len(body) = Len(s)

\* The subsequence of q of the elements at the positions in keep.
RECURSIVE Pick(_, _, _)
Pick(q, keep, i) ==
    IF i > Len(q) THEN <<>>
    ELSE (IF i \in keep THEN <<q[i]>> ELSE <<>>) \o Pick(q, keep, i + 1)

\* The rows of the tables, file after file.
AllRows == IF Len(inp.tables) = 1 THEN inp.tables[1]
           ELSE inp.tables[1] \o inp.tables[2]

\* The rows that pass every filter of the call, in their order.
Kept ==
    LET match == IF inp.match = None THEN <<>> ELSE inp.match[1]
        keep == {i \in DOMAIN AllRows :
                   \A k \in DOMAIN match :
                      MatchesFromStart(match[k][2],
                                       AllRows[i][match[k][1]])}
    IN  Pick(AllRows, keep, 1)

\* C9: when a non-empty germline is given to tab2phy or lst_entries2phy, the
\* alignment written has the record `Germline` with that sequence as its
\* first row, and its header counts the table rows plus one.  tab2phy drops
\* its germline argument.
C9_GermlineFirst ==
    (/\ pc = "returned"
     /\ inp.fn \in {"tab2phy", "lst_entries2phy"}
     /\ inp.germline # None /\ inp.germline[1] # <<>>)
    => LET lines == Split(fs[Target])
       IN  /\ lines[2] = Germline \o <<" ", " ">> \o inp.germline[1]
           /\ UpToSpace(lines[1]) = str(Len(Kept) + 1)

\* C10: _filter_entries returns exactly the rows whose value in each
\* filter's column matches that filter's regex from position 0 (the AND of
\* all filters), in the order of the rows, later files after earlier ones;
\* with an empty filter list, the rows unchanged.
C10_FilterIsAnd ==
    (pc = "returned" /\ inp.fn = "_filter_entries") =>
      /\ out = Some(Kept)
      /\ inp.match = Some(<<>>) => out = Some(AllRows)

\* Two filters have kept some rows of a table and dropped others.
C10_Witness ==
    /\ pc = "returned" /\ inp.fn = "_filter_entries"
    /\ inp.match # None
    /\ Len(inp.match[1]) = 2
    /\ out # None
    /\ Len(out[1]) > 0
    /\ Len(out[1]) < Len(_gather_entries_iter(inp.tables))

\* C11: with match None or not given, _filter_entries returns all the rows
\* and tab2phy filters nothing; neither raises for it.  len(None) raises.
C11_NoneMeansNoFilter ==
    (/\ pc # "call"
     /\ inp.fn \in {"_filter_entries", "tab2phy"}
     /\ (~inp.has_match \/ inp.match = None))
    => /\ err # "TypeError"
       /\ inp.fn = "_filter_entries" =>
            pc = "returned" /\ out = Some(AllRows)

\* The rows that survive the filters differ in sequence length.
Ragged == \E i \in DOMAIN Kept : Len(Kept[i]["seq"]) # Len(Kept[1]["seq"])

\* The records of the alignment the call builds: tab2phy hands no germline
\* on, lst_entries2phy puts a non-empty one first.
Records ==
    LET rows == [i \in DOMAIN Kept |->
                   [name |-> Kept[i]["id"], seq |-> Kept[i]["seq"]]]
    IN  IF inp.fn = "lst_entries2phy" /\ inp.germline # None
           /\ inp.germline[1] # <<>>
        THEN <<[name |-> Germline, seq |-> inp.germline[1]]>> \o rows
        ELSE rows

\* C12: the converter raises, and leaves the output file as it was (absent
\* or untouched), whenever no table row survives or the surviving rows
\* differ in length; it writes only a non-empty alignment of one length.
\* lst_entries2phy counts the germline record as a match.
C12_NoFileOnError ==
    (pc # "call" /\ inp.fn \in {"tab2phy", "lst_entries2phy"}) =>
      /\ (Kept = <<>> \/ Ragged) =>
            pc = "raised" /\ fs = OldOutputs(inp.existing)
      /\ fs # OldOutputs(inp.existing) =>
            /\ Records # <<>>
            /\ \A i \in DOMAIN Records :
                  Len(Records[i].seq) = Len(Records[1].seq)

\* A text in a field of ten columns: the text, then spaces up to column 10.
Field10(s) == [i \in 1..10 |-> IF i <= Len(s) THEN s[i] ELSE " "]

\* The last nine characters of an identifier, all of it if it is shorter.
Tail9(s) ==
    LET k == IF Len(s) < 9 THEN Len(s) ELSE 9
    IN  [i \in 1..k |-> s[Len(s) - k + i]]

\* C13: the written file is a header line (the record count in a field of
\* ten columns, then the common sequence length), then one line per record
\* in input order (the last nine characters of the identifier in a field of
\* ten columns, then the sequence as it is), each line ended by a newline.
C13_FileLayout ==
    (pc = "returned" /\ inp.fn \in {"tab2phy", "lst_entries2phy"}) =>
      /\ lexists(fs, Target)
      /\ Split(fs[Target]) =
            <<Field10(str(Len(Records))) \o str(Len(Records[1].seq))>>
            \o [i \in DOMAIN Records |->
                  Field10(Tail9(Records[i].name)) \o Records[i].seq]
            \o << <<>> >>

C13_Witness ==
    /\ pc = "returned"
    /\ inp.fn \in {"tab2phy", "lst_entries2phy"}
    /\ Len(Records) >= 2
    /\ \E i \in DOMAIN Records : Len(Records[i].name) > 9
    /\ \E i \in DOMAIN Records : Len(Records[i].name) < 9
    /\ Len(Split(fs[Target])) = Len(Records) + 2

\* ---------------------------------------------------------------------
\* One call of _strip_first_lines(fname_in, n_lines=..., fname_out=...).

MaxLines == 3
MaxStrip == 3

Lines == {<<>>, <<"1">>, <<"(", ")", ";">>}

\* Texts of up to MaxLines newline-terminated lines, and the same followed
\* by an unterminated last line.
Texts ==
    LET whole == {cat_lines(ls) :
                    ls \in UNION {[1..k -> Lines] : k \in 0..MaxLines}}
    IN  whole \cup {t \o <<"z">> : t \in whole}

a_txt == <<"a", ".", "t", "x", "t">>

InitStrip ==
    /\ inp \in [fn : {"_strip_first_lines"},
                fname_in : {outtree},
                text : Texts,
                n_lines : {None} \cup {Some(n) : n \in 0..MaxStrip},
                fname_out : {None, Some(outtree), Some(a_txt)},
                existing : BOOLEAN]
    /\ inp.existing => inp.fname_out = Some(a_txt)
    /\ fs = IF inp.existing
            THEN [n \in {outtree, a_txt} |->
                    IF n = outtree THEN inp.text ELSE stale_data]
            ELSE [n \in {outtree} |-> inp.text]
    /\ out = None
    /\ err = ""
    /\ top = NoCall
    /\ pc = "call"
    /\ loc = [fname |-> None, phy_in_orig |-> None]
    /\ running = {}
    /\ launched = <<>>
    /\ ret = None

strip_first_lines_call ==
    /\ pc = "call" /\ inp.fn = "_strip_first_lines"
    /\ LET fname_out == IF inp.fname_out = None THEN inp.fname_in
                        ELSE inp.fname_out[1]
           n_lines == IF inp.n_lines = None THEN 1 ELSE inp.n_lines[1]
           r == _strip_first_lines(fs, inp.fname_in, n_lines, fname_out)
       IN  /\ fs' = r.fs
           /\ err' = r.raised
           /\ pc' = IF r.raised = "" THEN "returned" ELSE "raised"
    /\ UNCHANGED <<top, loc, running, launched, ret, inp, out>>

NextStrip == strip_first_lines_call

SpecStrip == InitStrip /\ [][NextStrip]_vars

\* ---------------------------------------------------------------------

\* Pieces joined with a newline between each two.
RECURSIVE Join(_)
Join(ps) == IF Len(ps) = 0 THEN <<>>
            ELSE IF Len(ps) = 1 THEN ps[1]
            ELSE ps[1] \o <<NL>> \o Join(Tail(ps))

\* The lines of a text after its first n.
AfterLines(text, n) ==
    LET ps == Split(text)
    IN  IF n >= Len(ps) THEN <<>> ELSE Join(SubSeq(ps, n + 1, Len(ps)))

StripOut == IF inp.fname_out = None THEN inp.fname_in ELSE inp.fname_out[1]

StripN == IF inp.n_lines = None THEN 1 ELSE inp.n_lines[1]

\* C14: after _strip_first_lines returns, fname_out holds exactly the lines
\* of the original fname_in after its first n_lines (1 by default), also
\* when fname_out is fname_in or left to default to it.  For equal names
\* the function does nothing.
C14_StripsIntoOutput ==
    (pc = "returned" /\ inp.fn = "_strip_first_lines") =>
      /\ lexists(fs, StripOut)
      /\ fs[StripOut] = AfterLines(inp.text, StripN)

\* The states in which a stage's program has terminated and the stage is
\* about to relocate the outputs and delete its command file.
Exited == pc \in {"seqboot_exit", "phylip_exit", "consense_exit",
                  "cleanup_exit"}

\* C15: a command file is written exactly when a program is launched, and
\* that launch reads just what was written; a stage whose program has
\* terminated either deletes the command file or ends in an error, so that
\* no stage completes with the file undeleted or already gone.
\* run_consense skips a command file that is no longer there.
C15_CmdfileDeletedOrError ==
    [][/\ (Len(launched') = Len(launched) + 1)
            <=> (~lexists(fs, cmdfname) /\ lexists(fs', cmdfname))
       /\ Len(launched') = Len(launched) + 1 =>
            launched'[Len(launched')].stdin = fs'[cmdfname]
       /\ (Exited /\ pc' # "raised") =>
            lexists(fs, cmdfname) /\ ~lexists(fs', cmdfname)
       /\ pc' = "returned" => ~lexists(fs', cmdfname)]_vars

\* The input name less its `.phy`.
Stem == SubSeq(top.fname, 1, Len(top.fname) - 4)

\* The seven files a bootstrap run leaves behind.
Durable ==
    {Stem \o sfx : sfx \in
       {<<".", "b", "o", "o", "t", ".", "p", "h", "y">>,
        <<".", "b", "o", "o", "t", ".", "o", "u", "t">>,
        <<".", "b", "o", "o", "t", ".", "t", "r", "e", "e">>,
        <<".", "b", "o", "o", "t", ".", "c", "o", "n", "s", ".", "o", "u", "t">>,
        <<".", "b", "o", "o", "t", ".", "c", "o", "n", "s", ".",
          "t", "r", "e", "e">>,
        <<".", "o", "u", "t">>,
        <<".", "t", "r", "e", "e">>}}

====
